---- MODULE Spec2Model ----
(***************************************************************************)
(* RailwayGraph of src/graph_algorithms.py: the graph store (stations,     *)
(* adjacency_list, edges_count), the three searches (BFS, Dijkstra, A-star)*)
(* and the resolvers built on them.                                        *)
(*                                                                         *)
(* Station codes are the integers 1..NumCodes; their order is the order of *)
(* the code strings (heapq compares (distance, code) tuples).  Distances   *)
(* and coordinates are small naturals.  adjacency_list is a Python         *)
(* defaultdict(list): reading adjacency_list[k] for a missing k INSERTS    *)
(* the key k with an empty list (Touch).                                   *)
(***************************************************************************)
EXTENDS Integers, Sequences, FiniteSets, TLC

VARIABLES stations, adjacency_list, edges_count, last, threads, added

vars == <<stations, adjacency_list, edges_count, last, threads, added>>

(***************************************************************************)
(* Bounds of the model.                                                    *)
(***************************************************************************)
NumCodes   == 3
MaxEdges   == 3
MaxLoad    == 1
MaxDist    == 1
MaxCoord   == 1
MaxName    == 1
NumCities  == 2
MaxPathLen == 2
NumThreads == 2
MaxConcEdges == 1
MaxStoreEdges == 2
MaxCityName == 2
MaxCityEdges == 2
MaxTermEdges == 2

Codes  == 1..NumCodes
Dists  == 0..MaxDist
Coords == 0..MaxCoord
Names  == 1..MaxName
Cities == 1..NumCities

\* a code that no station row carries
Ghost == NumCodes + 1

Algorithms == {"bfs", "dijkstra", "a_star"}

\* the paths handed to get_route_details
Paths == UNION {[1..n -> Codes] : n \in 0..MaxPathLen}

\* float('inf'): larger than every sum of distances a bounded graph has.
Inf == 1000000

(***************************************************************************)
(* Helpers on sequences.                                                   *)
(***************************************************************************)
Reverse(s) == [i \in 1..Len(s) |-> s[Len(s) + 1 - i]]

\* defaultdict(list).__getitem__: a missing key is inserted with [].
Touch(adj, k) == IF k \in DOMAIN adj THEN adj ELSE adj @@ (k :> <<>>)

\* the keys of the stations dict, and the record of a key
Known(st) == {st[i].code : i \in DOMAIN st}

StationIndex(st, code) == CHOOSE i \in DOMAIN st : st[i].code = code

Info(st, code) == st[StationIndex(st, code)]

\* What a search returns: a path and a metric, or an exception (raised);
\* adj is adjacency_list as the call leaves it.
Returned(path, metric, adj) ==
    [path |-> path, metric |-> metric, raised |-> FALSE, adj |-> adj]

Raised(adj) == [path |-> <<>>, metric |-> 0, raised |-> TRUE, adj |-> adj]

(***************************************************************************)
(* bfs_shortest_path                                                       *)
(***************************************************************************)
\* a for-loop that breaks at a visited neighbour instead of continuing
RECURSIVE BfsScan_StopsAtVisited(_, _, _, _, _, _)
BfsScan_StopsAtVisited(nbrs, i, path, end, queue, visited) ==
    IF i > Len(nbrs)
    THEN [found |-> FALSE, path |-> <<>>, queue |-> queue, visited |-> visited]
    ELSE LET neighbor == nbrs[i][1]
             new_path == Append(path, neighbor)
         IN  IF neighbor \in visited
             THEN [found |-> FALSE, path |-> <<>>,
                   queue |-> queue, visited |-> visited]
             ELSE IF neighbor = end
             THEN [found |-> TRUE, path |-> new_path,
                   queue |-> queue, visited |-> visited]
             ELSE BfsScan_StopsAtVisited(nbrs, i + 1, path, end,
                          Append(queue, <<neighbor, new_path>>),
                          visited \cup {neighbor})

\* the for-loop over the neighbours of the dequeued node (lines 100-111)
RECURSIVE BfsScan(_, _, _, _, _, _)
BfsScan(nbrs, i, path, end, queue, visited) ==
    IF i > Len(nbrs)
    THEN [found |-> FALSE, path |-> <<>>, queue |-> queue, visited |-> visited]
    ELSE LET neighbor == nbrs[i][1]
             new_path == Append(path, neighbor)
         IN  IF neighbor \in visited
             THEN BfsScan(nbrs, i + 1, path, end, queue, visited)
             ELSE IF neighbor = end
             THEN [found |-> TRUE, path |-> new_path,
                   queue |-> queue, visited |-> visited]
             ELSE BfsScan(nbrs, i + 1, path, end,
                          Append(queue, <<neighbor, new_path>>),
                          visited \cup {neighbor})

\* the while-loop over the queue (lines 96-114)
RECURSIVE BfsLoop(_, _, _, _)
BfsLoop(adj, end, queue, visited) ==
    IF queue = <<>>
    THEN Returned(<<>>, 0, adj)
    ELSE LET current == Head(queue)[1]
             path    == Head(queue)[2]
             adj1    == Touch(adj, current)
             scan    == BfsScan(adj1[current], 1, path, end, Tail(queue), visited)
         IN  IF scan.found
             THEN Returned(scan.path, Len(scan.path) - 1, adj1)
             ELSE BfsLoop(adj1, end, scan.queue, scan.visited)

\* the entry guard shared by the three searches (lines 86, 129, 367)
GuardRejects(adj, st, start, end) ==
    start \notin DOMAIN adj \/ end \notin Known(st)

bfs_shortest_path(adj, st, start, end) ==
    IF GuardRejects(adj, st, start, end) THEN Returned(<<>>, 0, adj)
    ELSE IF start = end THEN Returned(<<start>>, 0, adj)
    ELSE BfsLoop(adj, end, << <<start, <<start>> >> >>, {start})

(***************************************************************************)
(* dijkstra_shortest_path                                                  *)
(***************************************************************************)
\* order of the (distance, code) tuples in the heap
TupleLe(x, y) == x[1] < y[1] \/ (x[1] = y[1] /\ x[2] <= y[2])

\* a heap that pops its greatest tuple
HeapMin_PopsGreatest(pq) == CHOOSE x \in pq : \A y \in pq : TupleLe(y, x)

\* heapq.heappop: the least tuple
HeapMin(pq) == CHOOSE x \in pq : \A y \in pq : TupleLe(x, y)

\* the table {station: inf for station in self.stations} with table[start] = 0
InitialTable(st, start) ==
    [n \in Known(st) \cup {start} |-> IF n = start THEN 0 ELSE Inf]

\* while current in previous: path.append(current); current = previous[current]
RECURSIVE WalkBack(_, _, _)
WalkBack(previous, current, path) ==
    IF current \in DOMAIN previous
    THEN WalkBack(previous, previous[current], Append(path, current))
    ELSE path

\* a reconstruction without path.reverse()
ReconstructPath_NotReversed(previous, start, end) ==
    Append(WalkBack(previous, end, <<>>), start)

\* lines 156-161 and 395-400
ReconstructPath(previous, start, end) ==
    Reverse(Append(WalkBack(previous, end, <<>>), start))

\* the relaxation loop (lines 169-176); distances[neighbor] raises KeyError
\* for a neighbour that is neither a station nor start
RECURSIVE DijkstraRelax(_, _, _, _, _, _, _)
DijkstraRelax(nbrs, i, current, current_distance, distances, previous, pq) ==
    IF i > Len(nbrs)
    THEN [raised |-> FALSE, distances |-> distances,
          previous |-> previous, pq |-> pq]
    ELSE LET neighbor == nbrs[i][1]
             distance == current_distance + nbrs[i][2]
         IN  IF neighbor \notin DOMAIN distances
             THEN [raised |-> TRUE, distances |-> distances,
                   previous |-> previous, pq |-> pq]
             ELSE IF distance < distances[neighbor]
             THEN DijkstraRelax(nbrs, i + 1, current, current_distance,
                      [distances EXCEPT ![neighbor] = distance],
                      IF neighbor \in DOMAIN previous
                      THEN [previous EXCEPT ![neighbor] = current]
                      ELSE previous @@ (neighbor :> current),
                      pq \cup {<<distance, neighbor>>})
             ELSE DijkstraRelax(nbrs, i + 1, current, current_distance,
                      distances, previous, pq)

\* the while-loop over the priority queue (lines 146-179)
RECURSIVE DijkstraLoop(_, _, _, _, _, _, _)
DijkstraLoop(adj, start, end, distances, previous, pq, visited) ==
    IF pq = {}
    THEN Returned(<<>>, 0, adj)
    ELSE LET top              == HeapMin(pq)
             current_distance == top[1]
             current          == top[2]
             rest             == pq \ {top}
         IN  IF current \in visited
             THEN DijkstraLoop(adj, start, end, distances, previous, rest, visited)
             ELSE IF current = end
             THEN Returned(ReconstructPath(previous, start, end),
                           distances[end], adj)
             ELSE IF current_distance > distances[current]
             THEN DijkstraLoop(adj, start, end, distances, previous, rest,
                               visited \cup {current})
             ELSE LET adj1 == Touch(adj, current)
                      rel  == DijkstraRelax(adj1[current], 1, current,
                                  current_distance, distances, previous, rest)
                  IN  IF rel.raised
                      THEN Raised(adj1)
                      ELSE DijkstraLoop(adj1, start, end, rel.distances,
                               rel.previous, rel.pq, visited \cup {current})

dijkstra_shortest_path(adj, st, start, end) ==
    IF GuardRejects(adj, st, start, end) THEN Returned(<<>>, 0, adj)
    ELSE IF start = end THEN Returned(<<start>>, 0, adj)
    ELSE DijkstraLoop(adj, start, end, InitialTable(st, start),
                      <<>>, {<<0, start>>}, {})

(***************************************************************************)
(* a_star_shortest_path                                                    *)
(*                                                                         *)
(* The heuristic is a square root; it is kept as its square (hsq), and an  *)
(* f-score g + sqrt(hsq) as the pair <<g, hsq>>, compared exactly.         *)
(***************************************************************************)
\* heuristic(station), squared (lines 374-381); Inf for an unknown station
HeuristicSq(st, station, end) ==
    IF station \notin Known(st) THEN Inf
    ELSE LET a == Info(st, station)
             b == Info(st, end)
         IN  (a.lat - b.lat) * (a.lat - b.lat) + (a.lon - b.lon) * (a.lon - b.lon)

\* g1 + sqrt(a) <= g2 + sqrt(b), over the reals
RealLe(g1, a, g2, b) ==
    LET d == g2 - g1
    IN  IF d >= 0
        THEN LET k == a - d * d - b IN k <= 0 \/ k * k <= 4 * d * d * b
        ELSE LET k == b - a - d * d IN k >= 0 /\ 4 * d * d * a <= k * k

\* f-scores: <<g, hsq>>, infinite when either part is
FInf(f) == f[1] = Inf \/ f[2] = Inf

FLe(f1, f2) ==
    IF FInf(f2) THEN TRUE
    ELSE IF FInf(f1) THEN FALSE
    ELSE RealLe(f1[1], f1[2], f2[1], f2[2])

\* min(open_set, key=f_score): a set has no order of its own, so any member
\* of least f-score may be the one returned
MinF(open_set, f_score) ==
    {n \in open_set : \A m \in open_set : FLe(f_score[n], f_score[m])}

\* a relaxation that puts the expanded node back into the open set although
\* its distance has not decreased
RECURSIVE AStarRelax_ReinsertsCurrent(_, _, _, _, _, _, _, _, _)
AStarRelax_ReinsertsCurrent(nbrs, i, current, st, end, g_score, f_score, came_from, open_set) ==
    IF i > Len(nbrs)
    THEN [raised |-> FALSE, g_score |-> g_score, f_score |-> f_score,
          came_from |-> came_from, open_set |-> open_set \cup {current}]
    ELSE LET neighbor          == nbrs[i][1]
             tentative_g_score == g_score[current] + nbrs[i][2]
         IN  IF neighbor \notin DOMAIN g_score
             THEN [raised |-> TRUE, g_score |-> g_score, f_score |-> f_score,
                   came_from |-> came_from, open_set |-> open_set]
             ELSE IF tentative_g_score < g_score[neighbor]
             THEN AStarRelax_ReinsertsCurrent(nbrs, i + 1, current, st, end,
                      [g_score EXCEPT ![neighbor] = tentative_g_score],
                      [f_score EXCEPT ![neighbor] =
                          <<tentative_g_score, HeuristicSq(st, neighbor, end)>>],
                      IF neighbor \in DOMAIN came_from
                      THEN [came_from EXCEPT ![neighbor] = current]
                      ELSE came_from @@ (neighbor :> current),
                      open_set \cup {neighbor})
             ELSE AStarRelax_ReinsertsCurrent(nbrs, i + 1, current, st, end,
                      g_score, f_score, came_from, open_set)

\* the relaxation loop (lines 405-411); g_score[neighbor] raises KeyError for
\* a neighbour that is neither a station nor start
RECURSIVE AStarRelax(_, _, _, _, _, _, _, _, _)
AStarRelax(nbrs, i, current, st, end, g_score, f_score, came_from, open_set) ==
    IF i > Len(nbrs)
    THEN [raised |-> FALSE, g_score |-> g_score, f_score |-> f_score,
          came_from |-> came_from, open_set |-> open_set]
    ELSE LET neighbor          == nbrs[i][1]
             tentative_g_score == g_score[current] + nbrs[i][2]
         IN  IF neighbor \notin DOMAIN g_score
             THEN [raised |-> TRUE, g_score |-> g_score, f_score |-> f_score,
                   came_from |-> came_from, open_set |-> open_set]
             ELSE IF tentative_g_score < g_score[neighbor]
             THEN AStarRelax(nbrs, i + 1, current, st, end,
                      [g_score EXCEPT ![neighbor] = tentative_g_score],
                      [f_score EXCEPT ![neighbor] =
                          <<tentative_g_score, HeuristicSq(st, neighbor, end)>>],
                      IF neighbor \in DOMAIN came_from
                      THEN [came_from EXCEPT ![neighbor] = current]
                      ELSE came_from @@ (neighbor :> current),
                      open_set \cup {neighbor})
             ELSE AStarRelax(nbrs, i + 1, current, st, end,
                      g_score, f_score, came_from, open_set)

\* the while-loop over the open set (lines 392-413): the set of the results
\* the call can have, one for each way the ties of min() can fall
RECURSIVE AStarLoop(_, _, _, _, _, _, _, _)
AStarLoop(adj, st, start, end, g_score, f_score, open_set, came_from) ==
    IF open_set = {}
    THEN {Returned(<<>>, 0, adj)}
    ELSE UNION {
           IF current = end
           THEN {Returned(ReconstructPath(came_from, start, end),
                          g_score[end], adj)}
           ELSE LET adj1 == Touch(adj, current)
                    rel  == AStarRelax(adj1[current], 1, current, st, end,
                                g_score, f_score, came_from,
                                open_set \ {current})
                IN  IF rel.raised
                    THEN {Raised(adj1)}
                    ELSE AStarLoop(adj1, st, start, end, rel.g_score,
                             rel.f_score, rel.open_set, rel.came_from)
           : current \in MinF(open_set, f_score) }

a_star_shortest_path(adj, st, start, end) ==
    IF GuardRejects(adj, st, start, end) THEN {Returned(<<>>, 0, adj)}
    ELSE IF start = end THEN {Returned(<<start>>, 0, adj)}
    ELSE AStarLoop(adj, st, start, end, InitialTable(st, start),
             [n \in Known(st) \cup {start} |->
                 IF n = start THEN <<0, HeuristicSq(st, start, end)>>
                 ELSE <<Inf, 0>>],
             {start}, <<>>)

(***************************************************************************)
(* The lookups of the store.                                               *)
(***************************************************************************)
\* the value dict.get returns for a missing key
None == [none |-> TRUE]

get_station_info(st, code) ==
    IF code \in Known(st)
    THEN LET r == Info(st, code)
         IN  [name |-> r.name, city |-> r.city, lat |-> r.lat, lon |-> r.lon]
    ELSE None

\* a sorted(...) of numbers
RECURSIVE SortedSeq(_)
SortedSeq(S) ==
    IF S = {} THEN <<>>
    ELSE LET m == CHOOSE x \in S : \A y \in S : x <= y
         IN  <<m>> \o SortedSeq(S \ {m})

get_cities(st) == SortedSeq({st[i].city : i \in DOMAIN st})

\* sorted(..., key=name) is stable: x goes after the entries whose name is not
\* greater than its own
RECURSIVE InsertByName(_, _)
InsertByName(sorted, x) ==
    IF sorted = <<>> THEN <<x>>
    ELSE IF x[2] < Head(sorted)[2] THEN <<x>> \o sorted
    ELSE <<Head(sorted)>> \o InsertByName(Tail(sorted), x)

RECURSIVE SortByName(_)
SortByName(pairs) ==
    IF pairs = <<>> THEN <<>>
    ELSE InsertByName(SortByName(SubSeq(pairs, 1, Len(pairs) - 1)),
                      pairs[Len(pairs)])

\* the (code, name) pairs of a city, in dict order (lines 68-70)
RECURSIVE PairsOfCity(_, _)
PairsOfCity(st, city) ==
    IF st = <<>> THEN <<>>
    ELSE (IF Head(st).city = city
          THEN << <<Head(st).code, Head(st).name>> >> ELSE <<>>)
         \o PairsOfCity(Tail(st), city)

get_stations_by_city(st, city) == SortByName(PairsOfCity(st, city))

\* round(edges_count / len(stations), 2), in hundredths; no quotient of the
\* bounded model lies half-way between two hundredths
get_statistics(st, count) ==
    [total_stations |-> Len(st),
     total_connections |-> count,
     total_cities |-> Len(get_cities(st)),
     avg_connections_per_station |->
         IF Len(st) > 0 THEN (200 * count + Len(st)) \div (2 * Len(st)) ELSE 0]

(***************************************************************************)
(* find_best_route_between_cities                                          *)
(***************************************************************************)
\* calls lists the searches the resolver ran, each with what it returned
NotFound(message, calls, adj) ==
    [found |-> FALSE, raised |-> FALSE, message |-> message,
     calls |-> calls, adj |-> adj]

Escaped(calls, adj) ==
    [found |-> FALSE, raised |-> TRUE, calls |-> calls, adj |-> adj]

CallOf(start, end, r) ==
    [start |-> start, end |-> end, path |-> r.path, metric |-> r.metric,
     raised |-> r.raised]

\* nested loops that replace the best result on a metric that is not greater
RECURSIVE CityLoop_LastOfTies(_, _, _, _, _, _, _, _, _)
CityLoop_LastOfTies(adj, st, origins, dests, k, algorithm, best, best_metric, calls) ==
    IF k > Len(origins) * Len(dests)
    THEN IF best = None
         THEN NotFound("no route between the cities", calls, adj)
         ELSE [best EXCEPT !.calls = calls, !.adj = adj]
    ELSE LET origin == origins[((k - 1) \div Len(dests)) + 1]
             dest   == dests[((k - 1) % Len(dests)) + 1]
             r      == IF algorithm = "bfs"
                       THEN bfs_shortest_path(adj, st, origin[1], dest[1])
                       ELSE dijkstra_shortest_path(adj, st, origin[1], dest[1])
             calls1 == Append(calls, CallOf(origin[1], dest[1], r))
         IN  IF r.raised
             THEN Escaped(calls1, r.adj)
             ELSE IF r.path # <<>> /\ r.metric <= best_metric
             THEN CityLoop_LastOfTies(r.adj, st, origins, dests, k + 1, algorithm,
                      [found |-> TRUE, raised |-> FALSE,
                       origin_station |-> [code |-> origin[1], name |-> origin[2]],
                       destination_station |-> [code |-> dest[1], name |-> dest[2]],
                       path |-> r.path, metric |-> r.metric,
                       algorithm |-> algorithm, calls |-> calls1, adj |-> r.adj],
                      r.metric, calls1)
             ELSE CityLoop_LastOfTies(r.adj, st, origins, dests, k + 1, algorithm,
                      best, best_metric, calls1)

\* the two nested for-loops (lines 208-227), at pair k of the N x M pairs
RECURSIVE CityLoop(_, _, _, _, _, _, _, _, _)
CityLoop(adj, st, origins, dests, k, algorithm, best, best_metric, calls) ==
    IF k > Len(origins) * Len(dests)
    THEN IF best = None
         THEN NotFound("no route between the cities", calls, adj)
         ELSE [best EXCEPT !.calls = calls, !.adj = adj]
    ELSE LET origin == origins[((k - 1) \div Len(dests)) + 1]
             dest   == dests[((k - 1) % Len(dests)) + 1]
             r      == IF algorithm = "bfs"
                       THEN bfs_shortest_path(adj, st, origin[1], dest[1])
                       ELSE dijkstra_shortest_path(adj, st, origin[1], dest[1])
             calls1 == Append(calls, CallOf(origin[1], dest[1], r))
         IN  IF r.raised
             THEN Escaped(calls1, r.adj)
             ELSE IF r.path # <<>> /\ r.metric < best_metric
             THEN CityLoop(r.adj, st, origins, dests, k + 1, algorithm,
                      [found |-> TRUE, raised |-> FALSE,
                       origin_station |-> [code |-> origin[1], name |-> origin[2]],
                       destination_station |-> [code |-> dest[1], name |-> dest[2]],
                       path |-> r.path, metric |-> r.metric,
                       algorithm |-> algorithm, calls |-> calls1, adj |-> r.adj],
                      r.metric, calls1)
             ELSE CityLoop(r.adj, st, origins, dests, k + 1, algorithm,
                      best, best_metric, calls1)

find_best_route_between_cities(adj, st, origin_city, destination_city, algorithm) ==
    LET origin_stations      == get_stations_by_city(st, origin_city)
        destination_stations == get_stations_by_city(st, destination_city)
    IN  IF origin_stations = <<>> \/ destination_stations = <<>>
        THEN NotFound("no stations in one or both cities", <<>>, adj)
        ELSE CityLoop(adj, st, origin_stations, destination_stations, 1,
                      algorithm, None, Inf, <<>>)

(***************************************************************************)
(* find_best_route_between_stations: the set of its possible results       *)
(***************************************************************************)
find_best_route_between_stations(adj, st, origin, destination, algorithm) ==
    IF algorithm # "a_star"
    THEN {Escaped(<<>>, adj)}
    ELSE IF origin \notin Known(st) \/ destination \notin Known(st)
    THEN {NotFound("no origin or destination station", <<>>, adj)}
    ELSE {LET calls == <<CallOf(origin, destination, r)>>
          IN  IF r.raised
              THEN Escaped(calls, r.adj)
              ELSE IF r.path # <<>>
              THEN [found |-> TRUE, raised |-> FALSE,
                    origin_station |-> [code |-> origin,
                                        name |-> Info(st, origin).name],
                    destination_station |-> [code |-> destination,
                                        name |-> Info(st, destination).name],
                    path |-> r.path, metric |-> r.metric,
                    algorithm |-> "a_star", calls |-> calls, adj |-> r.adj]
              ELSE NotFound("no route between the stations", calls, r.adj)
          : r \in a_star_shortest_path(adj, st, origin, destination)}

(***************************************************************************)
(* get_route_details                                                       *)
(***************************************************************************)
\* a scan without the break: the distance of the last entry for next_code
RECURSIVE FirstDistance_LastMatch(_, _, _)
FirstDistance_LastMatch(nbrs, i, next_code) ==
    IF i > Len(nbrs) THEN [found |-> FALSE]
    ELSE LET rest == FirstDistance_LastMatch(nbrs, i + 1, next_code)
         IN  IF rest.found THEN rest
             ELSE IF nbrs[i][1] = next_code
             THEN [found |-> TRUE, distance |-> nbrs[i][2]]
             ELSE [found |-> FALSE]

\* the scan of lines 262-265: the distance of the first entry for next_code
RECURSIVE FirstDistance(_, _, _)
FirstDistance(nbrs, i, next_code) ==
    IF i > Len(nbrs) THEN [found |-> FALSE]
    ELSE IF nbrs[i][1] = next_code
    THEN [found |-> TRUE, distance |-> nbrs[i][2]]
    ELSE FirstDistance(nbrs, i + 1, next_code)

\* one turn of the loop of lines 248-267, for the element at position i
DetailsTurn(adj, st, path, i, details) ==
    LET code == path[i]
    IN  IF code \notin Known(st)
        THEN [details |-> details, adj |-> adj]
        ELSE LET detail == [step |-> i, code |-> code,
                            name |-> Info(st, code).name,
                            city |-> Info(st, code).city]
             IN  IF i < Len(path)
                 THEN LET adj1 == Touch(adj, code)
                          d    == FirstDistance(adj1[code], 1, path[i + 1])
                      IN  [details |-> Append(details,
                                  IF d.found
                                  THEN [step |-> detail.step,
                                        code |-> detail.code,
                                        name |-> detail.name,
                                        city |-> detail.city,
                                        distance_to_next |-> d.distance]
                                  ELSE detail),
                           adj |-> adj1]
                 ELSE [details |-> Append(details, detail), adj |-> adj]

RECURSIVE DetailsLoop(_, _, _, _, _)
DetailsLoop(adj, st, path, i, details) ==
    IF i > Len(path) THEN [details |-> details, adj |-> adj]
    ELSE LET turn == DetailsTurn(adj, st, path, i, details)
         IN  DetailsLoop(turn.adj, st, path, i + 1, turn.details)

get_route_details(adj, st, path) == DetailsLoop(adj, st, path, 1, <<>>)

(***************************************************************************)
(* The store.  stations is a dict: a sequence of station records in        *)
(* insertion order (a dict keeps it, and the stable sort of                *)
(* get_stations_by_city depends on it).                                    *)
(***************************************************************************)
NoCall == [op |-> "none"]

\* added records, for each code, the arguments of the most recent add_station
\* call; AddedBy(st) is the record after the calls that load the rows of st
AddedBy(st) ==
    [c \in Known(st) |-> [name |-> Info(st, c).name, city |-> Info(st, c).city,
                          lat |-> Info(st, c).lat, lon |-> Info(st, c).lon]]

Init ==
    /\ stations = <<>>
    /\ adjacency_list = <<>>
    /\ edges_count = 0
    /\ last = NoCall
    /\ threads = <<>>
    /\ added = AddedBy(stations)

\* no call is in progress: the caller makes one call at a time
Idle == last = NoCall

\* a dict assignment that leaves the value of an old key as it is
PutStation_KeepsFirst(st, rec) ==
    IF rec.code \in Known(st) THEN st ELSE Append(st, rec)

\* a dict assignment that makes a new entry for an old key
PutStation_AlwaysAppends(st, rec) == Append(st, rec)

\* dict assignment: a new key goes last, an old key keeps its place
PutStation(st, rec) ==
    IF rec.code \in Known(st)
    THEN [st EXCEPT ![StationIndex(st, rec.code)] = rec]
    ELSE Append(st, rec)

Put(f, k, v) == IF k \in DOMAIN f THEN [f EXCEPT ![k] = v] ELSE f @@ (k :> v)

add_station(code, name, city, lat, lon) ==
    /\ Idle
    /\ stations' = PutStation(stations, [code |-> code, name |-> name,
                                 city |-> city, lat |-> lat, lon |-> lon])
    /\ added' = Put(added, code, [name |-> name, city |-> city,
                                  lat |-> lat, lon |-> lon])
    /\ UNCHANGED <<adjacency_list, edges_count, last, threads>>

add_edge(source, target, distance) ==
    /\ Idle
    /\ adjacency_list' = Put(adjacency_list, source,
           Append(Touch(adjacency_list, source)[source], <<target, distance>>))
    /\ edges_count' = edges_count + 1
    /\ UNCHANGED <<stations, last, threads, added>>

\* a call of a query: the store as the call leaves it, and what it returns
QueryCall(adj, result) ==
    /\ Idle
    /\ adjacency_list' = adj
    /\ last' = result
    /\ UNCHANGED <<stations, edges_count, threads, added>>

SearchCall(op, start, end, r) ==
    QueryCall(r.adj, [op |-> op, start |-> start, end |-> end, path |-> r.path,
                      metric |-> r.metric, raised |-> r.raised])

Bfs(start, end) ==
    SearchCall("bfs", start, end,
               bfs_shortest_path(adjacency_list, stations, start, end))

Dijkstra(start, end) ==
    SearchCall("dijkstra", start, end,
               dijkstra_shortest_path(adjacency_list, stations, start, end))

AStar(start, end) ==
    \E r \in a_star_shortest_path(adjacency_list, stations, start, end) :
        SearchCall("a_star", start, end, r)

\* the result of a resolver without the store it leaves
Outcome(r) == [k \in DOMAIN r \ {"adj"} |-> r[k]]

FindBestRouteBetweenCities(origin_city, destination_city, algorithm) ==
    LET r == find_best_route_between_cities(adjacency_list, stations,
                 origin_city, destination_city, algorithm)
    IN  QueryCall(r.adj, [op |-> "cities", origin_city |-> origin_city,
                          destination_city |-> destination_city,
                          algorithm |-> algorithm, result |-> Outcome(r)])

FindBestRouteBetweenStations(origin, destination, algorithm) ==
    \E r \in find_best_route_between_stations(adjacency_list, stations,
                 origin, destination, algorithm) :
        QueryCall(r.adj, [op |-> "stations", origin |-> origin,
                          destination |-> destination,
                          algorithm |-> algorithm, result |-> Outcome(r)])

GetRouteDetails(path) ==
    LET r == get_route_details(adjacency_list, stations, path)
    IN  QueryCall(r.adj, [op |-> "details", path |-> path,
                          details |-> r.details])

GetStationInfo(code) ==
    QueryCall(adjacency_list, [op |-> "station_info", code |-> code,
                               info |-> get_station_info(stations, code)])

GetCities ==
    QueryCall(adjacency_list, [op |-> "get_cities",
                               cities |-> get_cities(stations)])

GetStationsByCity(city) ==
    QueryCall(adjacency_list, [op |-> "stations_by_city", city |-> city,
                               pairs |-> get_stations_by_city(stations, city)])

GetStatistics ==
    QueryCall(adjacency_list, [op |-> "statistics",
                               stats |-> get_statistics(stations, edges_count)])

\* the call returns (or its exception propagates) to the caller
Return ==
    /\ ~Idle
    /\ last' = NoCall
    /\ UNCHANGED <<stations, adjacency_list, edges_count, threads, added>>

(***************************************************************************)
(* Spec: the life of a store, every operation of the class.                *)
(***************************************************************************)
Next ==
    \/ \E code \in Codes, name \in Names, city \in Cities :
           add_station(code, name, city, 0, 0)
    \/ \E s \in Codes, t \in Codes, d \in Dists :
           edges_count < MaxLoad /\ add_edge(s, t, d)
    \/ \E s \in Codes, e \in Codes : Bfs(s, e)
    \/ \E s \in Codes, e \in Codes : Dijkstra(s, e)
    \/ \E s \in Codes, e \in Codes : AStar(s, e)
    \/ \E o \in Cities, d \in Cities, a \in Algorithms :
           FindBestRouteBetweenCities(o, d, a)
    \/ \E o \in Codes, d \in Codes, a \in Algorithms :
           FindBestRouteBetweenStations(o, d, a)
    \/ \E path \in Paths : GetRouteDetails(path)
    \/ \E code \in Codes : GetStationInfo(code)
    \/ GetCities
    \/ \E city \in Cities : GetStationsByCity(city)
    \/ GetStatistics
    \/ Return

Spec == Init /\ [][Next]_vars

(***************************************************************************)
(* SpecSearch: BFS and Dijkstra on every graph of up to MaxEdges edges     *)
(* over the codes, any of which may be a station or not.  The station rows *)
(* are loaded before the edges, in the order of their codes.               *)
(***************************************************************************)
\* the station rows of the codes of K, in the order of the codes
RECURSIVE RowsOf(_)
RowsOf(K) ==
    IF K = {} THEN <<>>
    ELSE LET m == CHOOSE x \in K : \A y \in K : y <= x
         IN  Append(RowsOf(K \ {m}),
                    [code |-> m, name |-> 1, city |-> 1, lat |-> 0, lon |-> 0])

InitSearch ==
    /\ stations \in {RowsOf(K) : K \in SUBSET Codes}
    /\ adjacency_list = <<>>
    /\ edges_count = 0
    /\ last = NoCall
    /\ threads = <<>>
    /\ added = AddedBy(stations)

NextSearch ==
    \/ \E s \in Codes, t \in Codes, d \in Dists :
           edges_count < MaxEdges /\ add_edge(s, t, d)
    \/ \E s \in Codes, e \in Codes : Bfs(s, e)
    \/ \E s \in Codes, e \in Codes : Dijkstra(s, e)
    \/ Return

SpecSearch == InitSearch /\ [][NextSearch]_vars

(***************************************************************************)
(* SpecAStar: A-star on the graphs whose stations are the codes, each at a *)
(* latitude of Coords, and whose edges may also lead to Ghost.             *)
(***************************************************************************)
StationTable(lats) ==
    [i \in Codes |-> [code |-> i, name |-> 1, city |-> 1,
                      lat |-> lats[i], lon |-> 0]]

InitAStar ==
    /\ stations \in {StationTable(lats) : lats \in [Codes -> Coords]}
    /\ adjacency_list = <<>>
    /\ edges_count = 0
    /\ last = NoCall
    /\ threads = <<>>
    /\ added = AddedBy(stations)

NextAStar ==
    \/ \E s \in Codes, t \in Codes \cup {Ghost}, d \in Dists :
           edges_count < MaxEdges /\ add_edge(s, t, d)
    \/ \E s \in Codes, e \in Codes : AStar(s, e)
    \/ Return

SpecAStar == InitAStar /\ [][NextAStar]_vars

(***************************************************************************)
(* SpecConc: queries run by several threads on one store, without locks.   *)
(* The store is a loaded one: its station rows and up to MaxConcEdges edge *)
(* rows were added before any thread began.  A thread runs                 *)
(* bfs_shortest_path or get_route_details; a step of a thread is the code  *)
(* between two accesses to the store.                                      *)
(***************************************************************************)
Threads == 1..NumThreads

\* the adjacency mapping add_edge builds from a sequence of edge rows
RECURSIVE LoadEdges(_)
LoadEdges(rows) ==
    IF rows = <<>> THEN <<>>
    ELSE LET adj == LoadEdges(SubSeq(rows, 1, Len(rows) - 1))
             row == rows[Len(rows)]
         IN  Put(adj, row[1], Append(Touch(adj, row[1])[row[1]],
                                     <<row[2], row[3]>>))

EdgeRows == UNION {[1..n -> Codes \X Codes \X Dists] : n \in 0..MaxConcEdges}

BfsThread(start, end) ==
    [op |-> "bfs", start |-> start, end |-> end, pc |-> "guard",
     queue |-> <<>>, visited |-> {}, path |-> <<>>, metric |-> 0]

DetailsThread(path) ==
    [op |-> "details", route |-> path, pc |-> "loop", i |-> 1, details |-> <<>>]

Programs ==
    {BfsThread(s, e) : s \in Codes, e \in Codes}
        \cup {DetailsThread(p) : p \in Paths}

InitConc ==
    /\ stations \in {RowsOf(K) : K \in SUBSET Codes}
    /\ \E rows \in EdgeRows :
           /\ adjacency_list = LoadEdges(rows)
           /\ edges_count = Len(rows)
    /\ last = NoCall
    /\ threads \in [Threads -> Programs]
    /\ added = AddedBy(stations)

\* lines 86-94: the guard, the trivial route, the first queue
BfsEnter(t) ==
    LET th == threads[t]
    IN  /\ th.op = "bfs" /\ th.pc = "guard"
        /\ threads' = [threads EXCEPT ![t] =
               IF GuardRejects(adjacency_list, stations, th.start, th.end)
               THEN [th EXCEPT !.pc = "done"]
               ELSE IF th.start = th.end
               THEN [th EXCEPT !.pc = "done", !.path = <<th.start>>]
               ELSE [th EXCEPT !.pc = "loop",
                               !.queue = << <<th.start, <<th.start>> >> >>,
                               !.visited = {th.start}]]
        /\ UNCHANGED <<stations, adjacency_list, edges_count, last, added>>

\* one turn of the while-loop of lines 96-111, or line 114
BfsTurn(t) ==
    LET th == threads[t]
    IN  /\ th.op = "bfs" /\ th.pc = "loop"
        /\ IF th.queue = <<>>
           THEN /\ threads' = [threads EXCEPT ![t] = [th EXCEPT !.pc = "done"]]
                /\ UNCHANGED adjacency_list
           ELSE LET current == Head(th.queue)[1]
                    adj1    == Touch(adjacency_list, current)
                    scan    == BfsScan(adj1[current], 1, Head(th.queue)[2],
                                       th.end, Tail(th.queue), th.visited)
                IN  /\ adjacency_list' = adj1
                    /\ threads' = [threads EXCEPT ![t] =
                           IF scan.found
                           THEN [th EXCEPT !.pc = "done", !.path = scan.path,
                                           !.metric = Len(scan.path) - 1]
                           ELSE [th EXCEPT !.queue = scan.queue,
                                           !.visited = scan.visited]]
        /\ UNCHANGED <<stations, edges_count, last, added>>

\* one turn of the loop of get_route_details, or its return
DetailsStep(t) ==
    LET th == threads[t]
    IN  /\ th.op = "details" /\ th.pc = "loop"
        /\ IF th.i > Len(th.route)
           THEN /\ threads' = [threads EXCEPT ![t] = [th EXCEPT !.pc = "done"]]
                /\ UNCHANGED adjacency_list
           ELSE LET turn == DetailsTurn(adjacency_list, stations, th.route,
                                        th.i, th.details)
                IN  /\ adjacency_list' = turn.adj
                    /\ threads' = [threads EXCEPT ![t] =
                           [th EXCEPT !.i = th.i + 1, !.details = turn.details]]
        /\ UNCHANGED <<stations, edges_count, last, added>>

NextConc ==
    \/ \E t \in Threads : BfsEnter(t)
    \/ \E t \in Threads : BfsTurn(t)
    \/ \E t \in Threads : DetailsStep(t)

SpecConc == InitConc /\ [][NextConc]_vars

(***************************************************************************)
(* Routes of a graph, by enumeration.                                      *)
(***************************************************************************)
\* the entries of source's adjacency sequence (none when source is no key)
EdgesFrom(adj, source) == IF source \in DOMAIN adj THEN adj[source] ELSE <<>>

\* the distances of the edges from u to v
LegWeights(adj, u, v) ==
    {EdgesFrom(adj, u)[i][2] : i \in {j \in DOMAIN EdgesFrom(adj, u) :
                                         EdgesFrom(adj, u)[j][1] = v}}

\* every total distance a sequence of nodes has, one edge chosen for each leg
RECURSIVE PathSums(_, _)
PathSums(adj, p) ==
    IF Len(p) <= 1 THEN {0}
    ELSE {x + w : x \in PathSums(adj, SubSeq(p, 1, Len(p) - 1)),
                  w \in LegWeights(adj, p[Len(p) - 1], p[Len(p)])}

\* p is a directed walk of the graph
IsRoute(adj, p) == Len(p) >= 1 /\ PathSums(adj, p) # {}

\* the node sequences of up to NumCodes + 1 nodes: every simple path and
\* every simple cycle is among them
Walks == UNION {[1..n -> Codes \cup {Ghost}] : n \in 1..(NumCodes + 1)}

RoutesBetween(adj, start, end) ==
    {p \in Walks : p[1] = start /\ p[Len(p)] = end /\ IsRoute(adj, p)}

(***************************************************************************)
(* C1: whenever dijkstra_shortest_path returns a non-empty path, the       *)
(* metric is the sum of the edge distances along that path, and no         *)
(* directed route from start to end has a smaller total distance.          *)
(***************************************************************************)
C1_DijkstraOptimal ==
    (last.op = "dijkstra" /\ ~last.raised /\ last.path # <<>>) =>
        /\ last.metric \in PathSums(adjacency_list, last.path)
        /\ \A p \in RoutesBetween(adjacency_list, last.start, last.end) :
               \A x \in PathSums(adjacency_list, p) : last.metric <= x

\* Dijkstra returned a route of two legs although a direct edge, of a greater
\* distance, exists
C1_Witness ==
    /\ last.op = "dijkstra" /\ ~last.raised
    /\ Len(last.path) = 3
    /\ \E x \in PathSums(adjacency_list, <<last.start, last.end>>) :
           x > last.metric

C2_WitnessTwoLegs == last.op = "bfs" /\ Len(last.path) = 3

\* BFS returned no path from a start the guard let through
C2_WitnessNoRoute ==
    /\ last.op = "bfs" /\ last.path = <<>>
    /\ ~GuardRejects(adjacency_list, stations, last.start, last.end)

(***************************************************************************)
(* C3: on a graph whose heuristic never exceeds the true shortest distance *)
(* to end, a_star_shortest_path returns what dijkstra_shortest_path        *)
(* returns on the same store: the same metric, and a non-empty path        *)
(* exactly when Dijkstra returns one.                                      *)
(***************************************************************************)
\* the least total distance of a route from n to end (Inf when there is none)
TrueDistance(adj, n, end) ==
    LET sums == UNION {PathSums(adj, p) : p \in RoutesBetween(adj, n, end)}
    IN  IF sums = {} THEN Inf
        ELSE CHOOSE x \in sums : \A y \in sums : x <= y

\* heuristic(n) <= the true distance from n to end, for every station n
Admissible(adj, st, end) ==
    \A n \in Known(st) :
        LET d == TrueDistance(adj, n, end)
        IN  d = Inf \/ HeuristicSq(st, n, end) <= d * d

\* what the call of A-star returned and what Dijkstra returns on the store
\* the call started from are the same
SameAsDijkstra(a, d) ==
    /\ a.raised = d.raised
    /\ ~a.raised => /\ a.metric = d.metric
                    /\ (a.path # <<>>) <=> (d.path # <<>>)

C3_AStarAgreesWithDijkstra ==
    [][(Idle /\ last'.op = "a_star"
             /\ last'.end \in Known(stations)
             /\ Admissible(adjacency_list, stations, last'.end)) =>
          SameAsDijkstra(last',
              dijkstra_shortest_path(adjacency_list, stations,
                                     last'.start, last'.end))]_vars

\* no edge of the graph leads to a code that is not a station
NoDanglingEdge(adj, st) ==
    \A s \in DOMAIN adj : \A i \in DOMAIN adj[s] : adj[s][i][1] \in Known(st)

\* the same, on the graphs all of whose edges lead to stations
C3_AgreesWithoutDanglingEdges ==
    [][(Idle /\ last'.op = "a_star"
             /\ last'.end \in Known(stations)
             /\ NoDanglingEdge(adjacency_list, stations)
             /\ Admissible(adjacency_list, stations, last'.end)) =>
          SameAsDijkstra(last',
              dijkstra_shortest_path(adjacency_list, stations,
                                     last'.start, last'.end))]_vars

(***************************************************************************)
(* The searches as the caller sees them.                                   *)
(***************************************************************************)
Searches == {"bfs", "dijkstra", "a_star"}

\* the call in progress is a search that returned the empty path and 0
ReturnedNoRoute == ~last.raised /\ last.path = <<>> /\ last.metric = 0

(***************************************************************************)
(* C4: for each of the three strategies and every known station X, also    *)
(* one without outgoing edges, search(X, X) returns the path [X] and the   *)
(* metric 0.                                                               *)
(***************************************************************************)
C4_TrivialRoute ==
    (last.op \in Searches /\ last.start = last.end
                          /\ last.start \in Known(stations)) =>
        (~last.raised /\ last.path = <<last.start>> /\ last.metric = 0)

(***************************************************************************)
(* C5: for each of the three strategies, a search whose start or end is    *)
(* not a known station returns the empty path and the metric 0.            *)
(***************************************************************************)
C5_UnknownEndpoints ==
    (last.op \in Searches /\ (last.start \notin Known(stations)
                              \/ last.end \notin Known(stations))) =>
        ReturnedNoRoute

(***************************************************************************)
(* C6: in every state reached by add_station, add_edge and query calls, a  *)
(* search whose start was never the source of an add_edge call, or whose   *)
(* end is not a known station, returns the empty path and the metric 0.    *)
(* (add_edge alone appends to an adjacency sequence, and nothing removes   *)
(* an entry: start was never a source exactly when it has no entry.)       *)
(***************************************************************************)
C6_NeverASource ==
    (last.op \in Searches /\ (EdgesFrom(adjacency_list, last.start) = <<>>
                              \/ last.end \notin Known(stations))) =>
        ReturnedNoRoute

(***************************************************************************)
(* C7: on every graph add_station and add_edge build, each of the three    *)
(* searches completes without raising and returns a path and a metric.     *)
(***************************************************************************)
C7_NoException == last.op \in Searches => ~last.raised

(***************************************************************************)
(* C8: no query changes the store: the station index, the adjacency        *)
(* mapping with its set of keys, and the edge counter are the same before  *)
(* and after the call.  (The queries are the steps that leave a call in    *)
(* progress.)                                                              *)
(***************************************************************************)
C8_QueriesLeaveStore ==
    [][(Idle /\ ~Idle') =>
          UNCHANGED <<stations, adjacency_list, edges_count>>]_vars

(***************************************************************************)
(* C10: find_best_route_between_cities with 'bfs' or 'dijkstra', for       *)
(* cities of N and M stations, runs exactly N x M searches, one for each   *)
(* pair, and returns a found result whose metric is the least metric of    *)
(* the searches that returned a non-empty path; it returns not-found       *)
(* exactly when N = 0, M = 0 or every search returned an empty path.       *)
(***************************************************************************)
\* the searches of calls that returned a non-empty path
Routed(calls) == {i \in DOMAIN calls : ~calls[i].raised /\ calls[i].path # <<>>}

C10_BestOfAllPairs ==
    [][(Idle /\ last'.op = "cities" /\ last'.algorithm \in {"bfs", "dijkstra"}) =>
          LET origins == get_stations_by_city(stations, last'.origin_city)
              dests   == get_stations_by_city(stations, last'.destination_city)
              r       == last'.result
          IN  /\ ~r.raised
              /\ Len(r.calls) = Len(origins) * Len(dests)
              /\ \A i \in DOMAIN origins, j \in DOMAIN dests :
                     \E k \in DOMAIN r.calls :
                         /\ r.calls[k].start = origins[i][1]
                         /\ r.calls[k].end = dests[j][1]
              /\ r.found <=> Routed(r.calls) # {}
              /\ ~r.found <=> \/ Len(origins) = 0
                              \/ Len(dests) = 0
                              \/ Routed(r.calls) = {}
              /\ r.found =>
                     /\ \E k \in Routed(r.calls) : r.metric = r.calls[k].metric
                     /\ \A k \in Routed(r.calls) : r.metric <= r.calls[k].metric]_vars

\* C10 but for the exceptions of the searches
C10_UnlessASearchRaises ==
    [][(Idle /\ last'.op = "cities" /\ last'.algorithm \in {"bfs", "dijkstra"}
             /\ ~last'.result.raised) =>
          LET origins == get_stations_by_city(stations, last'.origin_city)
              dests   == get_stations_by_city(stations, last'.destination_city)
              r       == last'.result
          IN  /\ Len(r.calls) = Len(origins) * Len(dests)
              /\ \A i \in DOMAIN origins, j \in DOMAIN dests :
                     \E k \in DOMAIN r.calls :
                         /\ r.calls[k].start = origins[i][1]
                         /\ r.calls[k].end = dests[j][1]
              /\ r.found <=> Routed(r.calls) # {}
              /\ ~r.found <=> \/ Len(origins) = 0
                              \/ Len(dests) = 0
                              \/ Routed(r.calls) = {}
              /\ r.found =>
                     /\ \E k \in Routed(r.calls) : r.metric = r.calls[k].metric
                     /\ \A k \in Routed(r.calls) : r.metric <= r.calls[k].metric]_vars

(***************************************************************************)
(* C9: when queries run concurrently on a store whose construction was     *)
(* complete before any of them began, each returns, under every            *)
(* interleaving, what it returns when it runs alone on that store.         *)
(***************************************************************************)
\* the store as construction left it: add_edge leaves no key without an
\* entry, and a query adds none but keys without entries
AsLoaded(adj) == [k \in {x \in DOMAIN adj : adj[x] # <<>>} |-> adj[k]]

ResultAlone(adj, st, th) ==
    IF th.op = "bfs"
    THEN LET r == bfs_shortest_path(adj, st, th.start, th.end)
         IN  <<r.path, r.metric>>
    ELSE get_route_details(adj, st, th.route).details

ResultOf(th) == IF th.op = "bfs" THEN <<th.path, th.metric>> ELSE th.details

C9_SameAsAlone ==
    \A t \in DOMAIN threads :
        threads[t].pc = "done" =>
            ResultOf(threads[t]) =
                ResultAlone(AsLoaded(adjacency_list), stations, threads[t])

\* a single thread does return what the call returns
C9_OneThreadAlone ==
    \A t \in DOMAIN threads :
        (threads[t].pc = "done"
            /\ \A u \in DOMAIN threads \ {t} : threads[u] \in Programs) =>
            ResultOf(threads[t]) =
                ResultAlone(AsLoaded(adjacency_list), stations, threads[t])

(***************************************************************************)
(* C11: find_best_route_between_cities rejects every strategy other than   *)
(* 'bfs' and 'dijkstra' as an invalid argument: it raises before any       *)
(* search is run, and returns no result labelled with that strategy.       *)
(***************************************************************************)
C11_RejectsOtherStrategies ==
    (last.op = "cities" /\ last.algorithm \notin {"bfs", "dijkstra"}) =>
        /\ last.result.raised
        /\ last.result.calls = <<>>

(***************************************************************************)
(* C12: find_best_route_between_stations raises for every strategy other   *)
(* than 'a_star'; with 'a_star' it returns found = False when origin or    *)
(* destination is not a station or when the A* search returns an empty     *)
(* path, and otherwise found = True with the path and the metric of        *)
(* a_star_shortest_path(origin, destination) and the two station codes.    *)
(***************************************************************************)
\* what C12 says of a result r of the call with 'a_star' on stations st
StationsResultAsClaimed(st, adj, origin, destination, r) ==
    IF origin \notin Known(st) \/ destination \notin Known(st)
    THEN ~r.raised /\ ~r.found /\ r.calls = <<>>
    ELSE /\ Len(r.calls) = 1
         /\ \E a \in a_star_shortest_path(adj, st, origin, destination) :
                r.calls[1] = CallOf(origin, destination, a)
         /\ ~r.raised
         /\ IF r.calls[1].raised \/ r.calls[1].path # <<>>
            THEN /\ r.found
                 /\ r.path = r.calls[1].path
                 /\ r.metric = r.calls[1].metric
                 /\ r.path # <<>>
                 /\ r.origin_station.code = origin
                 /\ r.destination_station.code = destination
            ELSE ~r.found

C12_StationsResolver ==
    [][(Idle /\ last'.op = "stations") =>
          IF last'.algorithm # "a_star"
          THEN last'.result.raised /\ last'.result.calls = <<>>
          ELSE StationsResultAsClaimed(stations, adjacency_list, last'.origin,
                                       last'.destination, last'.result)]_vars

\* C12 but for the exceptions of the search
C12_UnlessTheSearchRaises ==
    [][(Idle /\ last'.op = "stations"
             /\ ~(last'.algorithm = "a_star" /\ last'.result.raised)) =>
          IF last'.algorithm # "a_star"
          THEN last'.result.raised /\ last'.result.calls = <<>>
          ELSE StationsResultAsClaimed(stations, adjacency_list, last'.origin,
                                       last'.destination, last'.result)]_vars

(***************************************************************************)
(* SpecStore: the store under construction.  Stations are added and        *)
(* overwritten with every name, city and latitude, up to MaxStoreEdges     *)
(* edges are added between any codes, stations or not, and the store is    *)
(* read with get_station_info and get_statistics.                          *)
(***************************************************************************)
AnyCode == Codes \cup {Ghost}

NextStore ==
    \/ \E code \in Codes, name \in Names, city \in Cities, lat \in Coords :
           add_station(code, name, city, lat, 0)
    \/ \E s \in AnyCode, t \in AnyCode :
           edges_count < MaxStoreEdges /\ add_edge(s, t, 0)
    \/ \E code \in AnyCode : GetStationInfo(code)
    \/ GetStatistics
    \/ Return

SpecStore == Init /\ [][NextStore]_vars

(***************************************************************************)
(* C13: get_station_info(c) returns the name, city, latitude and longitude *)
(* of the most recent add_station call for c, and the not-found value for  *)
(* every code that was never passed to add_station, codes that are only    *)
(* edge endpoints included.                                                *)
(***************************************************************************)
MostRecent(c) == IF c \in DOMAIN added THEN added[c] ELSE None

C13_LatestAttributes ==
    /\ \A c \in AnyCode : get_station_info(stations, c) = MostRecent(c)
    /\ last.op = "station_info" => last.info = MostRecent(last.code)

\* get_station_info answers with a city and a latitude other than those the
\* station was first added with, while another station was added in between
C13_Witness ==
    /\ last.op = "station_info"
    /\ Len(stations) >= 2
    /\ last.code = stations[1].code
    /\ last.info # None
    /\ last.info.city = 2 /\ last.info.lat = 1

\* get_station_info answers not-found for a code that is the source and the
\* target of an edge
C13_WitnessEndpoint ==
    /\ last.op = "station_info" /\ last.info = None
    /\ last.code \in DOMAIN adjacency_list
    /\ \E i \in DOMAIN adjacency_list[last.code] :
           adjacency_list[last.code][i][1] = last.code

(***************************************************************************)
(* C14: get_statistics reports total_stations as the number of distinct    *)
(* station codes added, total_connections as the number of add_edge calls, *)
(* which is also the total length of the adjacency sequences (a parallel   *)
(* edge and an edge between unknown codes count once each), total_cities   *)
(* as the number of distinct city values, and an average of 0 when there   *)
(* is no station.                                                          *)
(***************************************************************************)
\* the total length of the adjacency sequences of the keys in K
RECURSIVE TotalEntries(_, _)
TotalEntries(adj, K) ==
    IF K = {} THEN 0
    ELSE LET k == CHOOSE x \in K : TRUE
         IN  Len(adj[k]) + TotalEntries(adj, K \ {k})

C14_StatisticsCount ==
    /\ edges_count = TotalEntries(adjacency_list, DOMAIN adjacency_list)
    /\ last.op = "statistics" =>
          /\ last.stats.total_stations = Cardinality(Known(stations))
          /\ last.stats.total_connections =
                 TotalEntries(adjacency_list, DOMAIN adjacency_list)
          /\ last.stats.total_cities =
                 Cardinality({stations[i].city : i \in DOMAIN stations})
          /\ stations = <<>> => last.stats.avg_connections_per_station = 0

\* every add_edge call adds one to the connections reported
C14_EachEdgeCountsOnce ==
    [][(\E s \in AnyCode, t \in AnyCode : add_edge(s, t, 0)) =>
          get_statistics(stations', edges_count').total_connections =
              get_statistics(stations, edges_count).total_connections + 1]_vars

\* statistics of a store with two parallel edges and a station that was
\* added twice
C14_Witness ==
    /\ last.op = "statistics"
    /\ last.stats.total_connections = 2
    /\ \E k \in DOMAIN adjacency_list :
           /\ Len(adjacency_list[k]) = 2
           /\ adjacency_list[k][1] = adjacency_list[k][2]
    /\ last.stats.total_stations = 2 /\ last.stats.total_cities = 1
    /\ stations[1].lat = 1

\* statistics of a store with edges and no station
C14_WitnessNoStation ==
    /\ last.op = "statistics" /\ stations = <<>>
    /\ last.stats.total_connections = 2

(***************************************************************************)
(* SpecRoutes: searches and itineraries on every graph of up to MaxEdges   *)
(* edges.  All the codes, or all but one, are loaded as stations, each     *)
(* with a name of its own; edges are added between any codes; a search is  *)
(* run and the path it returned is handed to get_route_details, as the     *)
(* page of a found route does; get_route_details is also called with any   *)
(* path.                                                                   *)
(***************************************************************************)
RECURSIVE Timetable(_)
Timetable(K) ==
    IF K = {} THEN <<>>
    ELSE LET m == CHOOSE x \in K : \A y \in K : y <= x
         IN  Append(Timetable(K \ {m}),
                    [code |-> m, name |-> m, city |-> (m % NumCities) + 1,
                     lat |-> 0, lon |-> 0])

InitRoutes ==
    /\ stations \in {Timetable(K) : K \in {Codes} \cup {Codes \ {c} : c \in Codes}}
    /\ adjacency_list = <<>>
    /\ edges_count = 0
    /\ last = NoCall
    /\ threads = <<>>
    /\ added = AddedBy(stations)

\* get_route_details(route_info['path']) for the path a search returned
RouteDetailsOfResult ==
    /\ last.op \in {"bfs", "dijkstra", "a_star"}
    /\ ~last.raised
    /\ last.path # <<>>
    /\ LET r == get_route_details(adjacency_list, stations, last.path)
       IN  /\ adjacency_list' = r.adj
           /\ last' = [op |-> "itinerary", search |-> last.op,
                       start |-> last.start, end |-> last.end,
                       path |-> last.path, metric |-> last.metric,
                       details |-> r.details]
    /\ UNCHANGED <<stations, edges_count, threads, added>>

NextRoutes ==
    \/ \E s \in Codes, t \in Codes, d \in Dists :
           edges_count < MaxEdges /\ add_edge(s, t, d)
    \/ \E s \in Codes, e \in Codes : Bfs(s, e)
    \/ \E s \in Codes, e \in Codes : Dijkstra(s, e)
    \/ \E s \in Codes, e \in Codes : AStar(s, e)
    \/ RouteDetailsOfResult
    \/ \E path \in Paths : GetRouteDetails(path)
    \/ Return

SpecRoutes == InitRoutes /\ [][NextRoutes]_vars

(***************************************************************************)
(* C15: for every path a search returned, get_route_details gives one step *)
(* record per element of the path, in path order; the k-th record has      *)
(* step = k and the code, the name and the city of the k-th station.       *)
(***************************************************************************)
OneRecordPerElement(st, path, details) ==
    /\ Len(details) = Len(path)
    /\ \A k \in DOMAIN details :
           /\ details[k].step = k
           /\ details[k].code = path[k]
           /\ path[k] \in Known(st)
           /\ details[k].name = Info(st, path[k]).name
           /\ details[k].city = Info(st, path[k]).city

C15_OneRecordPerStation ==
    last.op = "itinerary" =>
        OneRecordPerElement(stations, last.path, last.details)

\* C15 for the paths whose elements are all stations
C15_OnKnownStations ==
    (last.op = "itinerary"
        /\ \A k \in DOMAIN last.path : last.path[k] \in Known(stations)) =>
        OneRecordPerElement(stations, last.path, last.details)

\* an itinerary of three records for a route of two legs
C15_ThreeRecords == last.op = "itinerary" /\ Len(last.details) = 3

(***************************************************************************)
(* C16: in get_route_details(path) the record of every non-final station   *)
(* carries distance_to_next, the distance of the first entry, in insertion *)
(* order, of that station's adjacency sequence whose target is the next    *)
(* element of the path; when there is no such entry the record has no      *)
(* distance_to_next; the record of the final station never has it.         *)
(***************************************************************************)
\* the positions of the entries of u's adjacency sequence with target v
EntriesTo(adj, u, v) ==
    {i \in DOMAIN EdgesFrom(adj, u) : EdgesFrom(adj, u)[i][1] = v}

HasDistance(rec) == "distance_to_next" \in DOMAIN rec

LegAsClaimed(adj, path, rec) ==
    LET k == rec.step
    IN  IF k < Len(path) /\ EntriesTo(adj, path[k], path[k + 1]) # {}
        THEN /\ HasDistance(rec)
             /\ \E i \in EntriesTo(adj, path[k], path[k + 1]) :
                    /\ \A j \in EntriesTo(adj, path[k], path[k + 1]) : i <= j
                    /\ rec.distance_to_next = adj[path[k]][i][2]
        ELSE ~HasDistance(rec)

C16_DistanceToNext ==
    last.op \in {"details", "itinerary"} =>
        /\ \A k \in DOMAIN last.path :
               last.path[k] \in Known(stations) =>
                   \E n \in DOMAIN last.details : last.details[n].step = k
        /\ \A n \in DOMAIN last.details :
               /\ last.details[n].step \in DOMAIN last.path
               /\ LegAsClaimed(adjacency_list, last.path, last.details[n])

\* the first of two parallel edges of different distances gave the distance
C16_Witness ==
    /\ last.op = "details" /\ Len(last.details) = 2
    /\ HasDistance(last.details[1])
    /\ \E j \in EntriesTo(adjacency_list, last.path[1], last.path[2]) :
           adjacency_list[last.path[1]][j][2] # last.details[1].distance_to_next

\* a record without distance_to_next for a station that is not the last of
\* the path
C16_WitnessNoEdge ==
    /\ last.op = "details" /\ Len(last.details) = 2
    /\ ~HasDistance(last.details[1])

(***************************************************************************)
(* C17: for every non-empty path dijkstra_shortest_path or                 *)
(* a_star_shortest_path returns on a graph of known stations, parallel     *)
(* edges of different distances allowed, the metric is the total distance  *)
(* of the itinerary: the sum of the distance_to_next values of             *)
(* get_route_details(path).                                                *)
(***************************************************************************)
\* sum(detail.get('distance_to_next', 0) for detail in details)
RECURSIVE ItineraryDistance(_)
ItineraryDistance(details) ==
    IF details = <<>> THEN 0
    ELSE (IF HasDistance(Head(details))
          THEN Head(details).distance_to_next ELSE 0)
         + ItineraryDistance(Tail(details))

\* every code of the graph, source or target of an edge, is a station
OfKnownStations(adj, st) ==
    \A k \in DOMAIN adj :
        /\ adj[k] # <<>> => k \in Known(st)
        /\ \A i \in DOMAIN adj[k] : adj[k][i][1] \in Known(st)

C17_MetricIsItineraryDistance ==
    (last.op = "itinerary" /\ last.search \in {"dijkstra", "a_star"}
        /\ OfKnownStations(adjacency_list, stations)) =>
        last.metric = ItineraryDistance(last.details)

\* no two parallel edges of the graph differ in distance
NoUnequalParallelEdges(adj) ==
    \A k \in DOMAIN adj : \A i, j \in DOMAIN adj[k] :
        adj[k][i][1] = adj[k][j][1] => adj[k][i][2] = adj[k][j][2]

\* C17 but for parallel edges of different distances
C17_WithoutUnequalParallelEdges ==
    (last.op = "itinerary" /\ last.search \in {"dijkstra", "a_star"}
        /\ OfKnownStations(adjacency_list, stations)
        /\ NoUnequalParallelEdges(adjacency_list)) =>
        last.metric = ItineraryDistance(last.details)

(***************************************************************************)
(* SpecCities: the city resolver on the tables of the NumCodes stations,   *)
(* loaded in either order, each with a name of 1..MaxCityName and a city,  *)
(* and on every graph of up to MaxCityEdges edges between them.            *)
(***************************************************************************)
CityNames == 1..MaxCityName

\* the tables: the codes loaded in ascending or in descending order, with any
\* names and cities
CityTables ==
    {t \in [1..NumCodes -> [code : Codes, name : CityNames, city : Cities,
                            lat : {0}, lon : {0}]] :
        \/ \A i \in 1..NumCodes : t[i].code = i
        \/ \A i \in 1..NumCodes : t[i].code = NumCodes + 1 - i}

InitCities ==
    /\ stations \in CityTables
    /\ adjacency_list = <<>>
    /\ edges_count = 0
    /\ last = NoCall
    /\ threads = <<>>
    /\ added = AddedBy(stations)

NextCities ==
    \/ \E s \in Codes, t \in Codes, d \in Dists :
           edges_count < MaxCityEdges /\ add_edge(s, t, d)
    \/ \E o \in Cities, d \in Cities, a \in {"bfs", "dijkstra"} :
           FindBestRouteBetweenCities(o, d, a)
    \/ \E city \in Cities : GetStationsByCity(city)
    \/ Return

SpecCities == InitCities /\ [][NextCities]_vars

(***************************************************************************)
(* C18: find_best_route_between_cities runs its searches with the origin   *)
(* stations in the outer loop and the destination stations in the inner    *)
(* loop, each ascending by name, and replaces its best result only on a    *)
(* strictly smaller metric: of the pairs that attain the least metric, the *)
(* first in that order gives origin_station, destination_station and path. *)
(***************************************************************************)
StationsOf(st, city) == {c \in Known(st) : Info(st, c).city = city}

\* calls runs through N blocks of M searches: one origin per block, the same
\* M destinations in every block, origins and destinations ascending by name
OuterInnerByName(st, calls, N, M) ==
    /\ Len(calls) = N * M
    /\ \A k \in DOMAIN calls :
           /\ calls[k].start = calls[((k - 1) \div M) * M + 1].start
           /\ calls[k].end = calls[((k - 1) % M) + 1].end
    /\ \A i, j \in 1..N : i < j =>
           /\ calls[(i - 1) * M + 1].start # calls[(j - 1) * M + 1].start
           /\ Info(st, calls[(i - 1) * M + 1].start).name
                  <= Info(st, calls[(j - 1) * M + 1].start).name
    /\ \A i, j \in 1..M : i < j =>
           /\ calls[i].end # calls[j].end
           /\ Info(st, calls[i].end).name <= Info(st, calls[j].end).name

\* the first of the searches of calls that attain the least metric
FirstBest(calls) ==
    CHOOSE k \in Routed(calls) :
        /\ \A l \in Routed(calls) : calls[k].metric <= calls[l].metric
        /\ \A l \in Routed(calls) :
               calls[l].metric = calls[k].metric => k <= l

C18_FirstOfTheBest ==
    (last.op = "cities" /\ ~last.result.raised /\ last.result.calls # <<>>) =>
        LET r == last.result
        IN  /\ OuterInnerByName(stations, r.calls,
                   Cardinality(StationsOf(stations, last.origin_city)),
                   Cardinality(StationsOf(stations, last.destination_city)))
            /\ \A k \in DOMAIN r.calls :
                   /\ r.calls[k].start \in StationsOf(stations, last.origin_city)
                   /\ r.calls[k].end
                          \in StationsOf(stations, last.destination_city)
            /\ r.found =>
                   /\ r.origin_station.code = r.calls[FirstBest(r.calls)].start
                   /\ r.destination_station.code = r.calls[FirstBest(r.calls)].end
                   /\ r.path = r.calls[FirstBest(r.calls)].path
                   /\ r.metric = r.calls[FirstBest(r.calls)].metric

\* two pairs of different origins attain the least metric, and the origin of
\* the first was loaded after the origin of the second
C18_Witness ==
    /\ last.op = "cities" /\ last.result.found
    /\ \E l \in Routed(last.result.calls) :
           /\ FirstBest(last.result.calls) < l
           /\ last.result.calls[l].metric = last.result.metric
           /\ last.result.calls[l].start # last.result.origin_station.code
           /\ StationIndex(stations, last.result.calls[l].start)
                  < StationIndex(stations, last.result.origin_station.code)

(***************************************************************************)
(* C19: every non-empty path bfs_shortest_path, dijkstra_shortest_path or  *)
(* a_star_shortest_path returns for (start, end) is a route of the graph:  *)
(* it begins with start, ends with end, each consecutive pair (u, v) of it *)
(* is an entry of u's adjacency sequence, and no station occurs twice.     *)
(***************************************************************************)
RealRoute(adj, start, end, path) ==
    /\ path[1] = start
    /\ path[Len(path)] = end
    /\ \A k \in 1..(Len(path) - 1) :
           /\ path[k] \in DOMAIN adj
           /\ \E i \in DOMAIN adj[path[k]] : adj[path[k]][i][1] = path[k + 1]
    /\ \A k, l \in DOMAIN path : k # l => path[k] # path[l]

C19_PathIsARoute ==
    (last.op \in Searches /\ ~last.raised /\ last.path # <<>>) =>
        RealRoute(adjacency_list, last.start, last.end, last.path)

\* a search returned a route of two legs in a graph that has an edge from
\* the second station of the route back to the first
C19_Witness ==
    /\ last.op \in {"dijkstra", "a_star"} /\ ~last.raised
    /\ Len(last.path) = 3
    /\ EntriesTo(adjacency_list, last.path[2], last.path[1]) # {}

(***************************************************************************)
(* SpecTerm: one search run turn by turn, a turn being one pass of its     *)
(* while-loop, on every graph of up to MaxTermEdges edges between the      *)
(* stations, cycles and cycles of distance 0 among them.  The thread that  *)
(* runs the search is never suspended for ever.                            *)
(***************************************************************************)
TermRows == UNION {[1..n -> Codes \X Codes \X Dists] : n \in 0..MaxTermEdges}

DijkstraThread(start, end) ==
    [op |-> "dijkstra", start |-> start, end |-> end, pc |-> "guard",
     distances |-> <<>>, previous |-> <<>>, pq |-> {}, visited |-> {},
     path |-> <<>>, metric |-> 0]

AStarThread(start, end) ==
    [op |-> "a_star", start |-> start, end |-> end, pc |-> "guard",
     g_score |-> <<>>, f_score |-> <<>>, open_set |-> {}, came_from |-> <<>>,
     path |-> <<>>, metric |-> 0]

SearchPrograms ==
    {BfsThread(s, e) : s \in Codes, e \in Codes}
        \cup {DijkstraThread(s, e) : s \in Codes, e \in Codes}
        \cup {AStarThread(s, e) : s \in Codes, e \in Codes}

InitTerm ==
    /\ stations \in {StationTable(lats) : lats \in [Codes -> Coords]}
    /\ \E rows \in TermRows :
           /\ adjacency_list = LoadEdges(rows)
           /\ edges_count = Len(rows)
    /\ last = NoCall
    /\ threads \in [1..1 -> SearchPrograms]
    /\ added = AddedBy(stations)

\* lines 129-144: the guard, the trivial route, the tables and the heap
DijkstraEnter(t) ==
    LET th == threads[t]
    IN  /\ th.op = "dijkstra" /\ th.pc = "guard"
        /\ threads' = [threads EXCEPT ![t] =
               IF GuardRejects(adjacency_list, stations, th.start, th.end)
               THEN [th EXCEPT !.pc = "done"]
               ELSE IF th.start = th.end
               THEN [th EXCEPT !.pc = "done", !.path = <<th.start>>]
               ELSE [th EXCEPT !.pc = "loop",
                               !.distances = InitialTable(stations, th.start),
                               !.pq = {<<0, th.start>>}]]
        /\ UNCHANGED <<stations, adjacency_list, edges_count, last, added>>

\* one turn of the while-loop of lines 146-176, or line 179
DijkstraTurn(t) ==
    LET th == threads[t]
    IN  /\ th.op = "dijkstra" /\ th.pc = "loop"
        /\ IF th.pq = {}
           THEN /\ threads' = [threads EXCEPT ![t] = [th EXCEPT !.pc = "done"]]
                /\ UNCHANGED adjacency_list
           ELSE LET top     == HeapMin(th.pq)
                    current == top[2]
                    rest    == th.pq \ {top}
                IN  IF current \in th.visited
                    THEN /\ threads' = [threads EXCEPT ![t] =
                                            [th EXCEPT !.pq = rest]]
                         /\ UNCHANGED adjacency_list
                    ELSE IF current = th.end
                    THEN /\ threads' = [threads EXCEPT ![t] =
                                [th EXCEPT !.pc = "done", !.pq = rest,
                                    !.visited = th.visited \cup {current},
                                    !.path = ReconstructPath(th.previous,
                                                 th.start, th.end),
                                    !.metric = th.distances[th.end]]]
                         /\ UNCHANGED adjacency_list
                    ELSE IF top[1] > th.distances[current]
                    THEN /\ threads' = [threads EXCEPT ![t] =
                                [th EXCEPT !.pq = rest,
                                    !.visited = th.visited \cup {current}]]
                         /\ UNCHANGED adjacency_list
                    ELSE LET adj1 == Touch(adjacency_list, current)
                             rel  == DijkstraRelax(adj1[current], 1, current,
                                         top[1], th.distances, th.previous, rest)
                         IN  /\ adjacency_list' = adj1
                             /\ threads' = [threads EXCEPT ![t] =
                                    IF rel.raised
                                    THEN [th EXCEPT !.pc = "raised"]
                                    ELSE [th EXCEPT
                                             !.distances = rel.distances,
                                             !.previous = rel.previous,
                                             !.pq = rel.pq,
                                             !.visited = th.visited \cup {current}]]
        /\ UNCHANGED <<stations, edges_count, last, added>>

\* lines 367-390: the guard, the trivial route, the tables and the open set
AStarEnter(t) ==
    LET th == threads[t]
    IN  /\ th.op = "a_star" /\ th.pc = "guard"
        /\ threads' = [threads EXCEPT ![t] =
               IF GuardRejects(adjacency_list, stations, th.start, th.end)
               THEN [th EXCEPT !.pc = "done"]
               ELSE IF th.start = th.end
               THEN [th EXCEPT !.pc = "done", !.path = <<th.start>>]
               ELSE [th EXCEPT !.pc = "loop",
                        !.g_score = InitialTable(stations, th.start),
                        !.f_score =
                            [n \in Known(stations) \cup {th.start} |->
                                IF n = th.start
                                THEN <<0, HeuristicSq(stations, th.start, th.end)>>
                                ELSE <<Inf, 0>>],
                        !.open_set = {th.start}]]
        /\ UNCHANGED <<stations, adjacency_list, edges_count, last, added>>

\* one turn of the while-loop of lines 392-411, or line 413
AStarTurn(t) ==
    LET th == threads[t]
    IN  /\ th.op = "a_star" /\ th.pc = "loop"
        /\ IF th.open_set = {}
           THEN /\ threads' = [threads EXCEPT ![t] = [th EXCEPT !.pc = "done"]]
                /\ UNCHANGED adjacency_list
           ELSE \E current \in MinF(th.open_set, th.f_score) :
                    IF current = th.end
                    THEN /\ threads' = [threads EXCEPT ![t] =
                                [th EXCEPT !.pc = "done",
                                    !.path = ReconstructPath(th.came_from,
                                                 th.start, th.end),
                                    !.metric = th.g_score[th.end]]]
                         /\ UNCHANGED adjacency_list
                    ELSE LET adj1 == Touch(adjacency_list, current)
                             rel  == AStarRelax(adj1[current], 1, current,
                                         stations, th.end, th.g_score,
                                         th.f_score, th.came_from,
                                         th.open_set \ {current})
                         IN  /\ adjacency_list' = adj1
                             /\ threads' = [threads EXCEPT ![t] =
                                    IF rel.raised
                                    THEN [th EXCEPT !.pc = "raised"]
                                    ELSE [th EXCEPT
                                             !.g_score = rel.g_score,
                                             !.f_score = rel.f_score,
                                             !.came_from = rel.came_from,
                                             !.open_set = rel.open_set]]
        /\ UNCHANGED <<stations, edges_count, last, added>>

NextTerm ==
    \/ \E t \in DOMAIN threads : BfsEnter(t)
    \/ \E t \in DOMAIN threads : BfsTurn(t)
    \/ \E t \in DOMAIN threads : DijkstraEnter(t)
    \/ \E t \in DOMAIN threads : DijkstraTurn(t)
    \/ \E t \in DOMAIN threads : AStarEnter(t)
    \/ \E t \in DOMAIN threads : AStarTurn(t)

SpecTerm == InitTerm /\ [][NextTerm]_vars /\ WF_vars(NextTerm)

(***************************************************************************)
(* C20: on every finite graph with non-negative distances, cycles and      *)
(* cycles of distance 0 included, each of the three searches eventually    *)
(* terminates: its queue, heap or open set becomes empty or it returns.    *)
(***************************************************************************)
Terminated(th) == th.pc \in {"done", "raised"}

C20_Terminates == <>(\A t \in DOMAIN threads : Terminated(threads[t]))

\* the reason the claim gives: BFS enqueues no node that was visited, and
\* Dijkstra and A* insert a node only when its tentative distance has
\* strictly decreased
C20_InsertedOnStrictDecrease ==
    [][\A t \in DOMAIN threads :
          (threads[t].pc = "loop" /\ threads'[t].pc = "loop") =>
              LET th == threads[t]
                  tn == threads'[t]
              IN  /\ th.op = "bfs" =>
                         \A i \in DOMAIN tn.queue :
                             \/ \E j \in DOMAIN th.queue : th.queue[j] = tn.queue[i]
                             \/ tn.queue[i][1] \notin th.visited
                  /\ th.op = "dijkstra" =>
                         \A x \in tn.pq \ th.pq :
                             x[1] < th.distances[x[2]]
                  /\ th.op = "a_star" =>
                         \A n \in tn.open_set \ th.open_set :
                             tn.g_score[n] < th.g_score[n]]_vars

\* a search of a graph with a cycle of distance 0 through its start has
\* terminated without a route
C20_Witness ==
    \E t \in DOMAIN threads :
        /\ threads[t].op \in {"dijkstra", "a_star"}
        /\ threads[t].pc = "done" /\ threads[t].path = <<>>
        /\ \E n \in Codes \ {threads[t].start} :
               /\ <<n, 0>> \in {EdgesFrom(adjacency_list, threads[t].start)[i] :
                       i \in DOMAIN EdgesFrom(adjacency_list, threads[t].start)}
               /\ <<threads[t].start, 0>> \in {EdgesFrom(adjacency_list, n)[i] :
                       i \in DOMAIN EdgesFrom(adjacency_list, n)}
====
